---- MODULE Spec2Model ----
(***************************************************************************)
(* dwl-launcher (src/main.rs): prepare() bootstraps the config directory   *)
(* and its two default files, main() loads them, generates the service     *)
(* script, writes it to /tmp/dwl_service and spawns /usr/local/bin/dwl.    *)
(*                                                                         *)
(* A string or a path is a sequence of text units (one unit per push_str   *)
(* argument, path component or separator).  The file system is the set of  *)
(* existing directories and a function from the existing file paths to     *)
(* their content and permission bits.  Every system call is one step of    *)
(* the instance that makes it, so that two instances interleave at system  *)
(* call granularity.                                                       *)
(***************************************************************************)
EXTENDS Integers, Sequences, FiniteSets, TLC

VARIABLES
    overlap,        \* whether a run may start while another is in progress
    pc,             \* pc[p]: where instance p is in main()/prepare()/write_string()
    dirs,           \* the directories that exist
    files,          \* path -> [content, mode], for the files that exist
    local,          \* local[p]: the variables of prepare() and main(): dir,
                    \*   services_path, envs_path, services, envs, script
    ws,             \* ws[p]: the arguments of the write_string call in progress
                    \*   (string, path) and where it returns to (ret)
    err,            \* err[p]: the error main() returned
    child,          \* child[p]: the Child that init() spawned in this run
    whoami,         \* whoami[p]: what whoami() gave the last get_config_dir()
    runs,           \* history: the number of runs started
    edits,          \* history: the number of user edits
    startExisted,   \* history: the config files that existed when p's run started
    startScript,    \* history: the script file when p's run started
    failed,         \* history: failed[p], the first operation of p's run that
                    \*   failed without ending the run
    created,        \* history: <<path, p>>, create_new of p's run created path
    written         \* history: <<path, p>>, write_string of p's run opened path

vars == <<overlap, pc, dirs, files, local, ws, err, child, whoami, runs, edits,
          startExisted, startScript, failed, created, written>>

(***************************************************************************)
(* Bounds of the model.                                                    *)
(***************************************************************************)
MaxRuns == 2
MaxEdits == 1
MaxLen == 3

Procs == {1, 2}

(***************************************************************************)
(* Paths.                                                                  *)
(***************************************************************************)
Username == "user"
None == <<"None">>

\* Path::parent(): the path without its last component; None for the root
\* and for the empty path.  Components are separated by "/" only.
RECURSIVE LastSep(_, _)
LastSep(path, i) ==
    IF i = 0 THEN 0
    ELSE IF path[i] = "/" THEN i ELSE LastSep(path, i - 1)

parent(path) ==
    IF path = <<>> \/ path = <<"/">> THEN None
    ELSE LET i == LastSep(path, Len(path))
         IN  IF i = 0 THEN <<>>
             ELSE IF i = 1 THEN <<"/">>
             ELSE SubSeq(path, 1, i - 1)

directory_of(input) ==
    IF parent(input) = None
    THEN [ok |-> FALSE, value |-> <<>>]
    ELSE [ok |-> TRUE, value |-> parent(input)]

\* fs::create_dir_all: the directory and every missing ancestor.
RECURSIVE Chain(_)
Chain(path) ==
    IF path = <<>> THEN {}
    ELSE IF parent(path) = None THEN {path}
    ELSE {path} \cup Chain(parent(path))

create_dir_all(ds, path) == ds \cup Chain(path)

\* get_config_dir on a username that whoami() returned and to_str() accepted.
ConfigDirOf(username) ==
    <<"/", "home", "/">> \o <<username>> \o <<"/", ".config", "/", "dwl-launcher">>

\* whoami() fails ("nouser"), or gives a name that is not UTF-8 ("nonutf8"),
\* or gives the name.
WhoamiOutcomes == {"ok", "nouser", "nonutf8"}

get_config_dir(outcome) ==
    CASE outcome = "nouser"  -> [exit |-> "panicked", err |-> "Cannot get username", value |-> <<>>]
      [] outcome = "nonutf8" -> [exit |-> "exit_err", err |-> "Cannot translate username", value |-> <<>>]
      [] OTHER               -> [exit |-> "none", err |-> "none", value |-> ConfigDirOf(Username)]

\* env::join_paths: the paths joined by the PATH separator ":"; an error when
\* a path holds the separator.
HasUnit(path, u) == \E i \in 1..Len(path) : path[i] = u

join_paths(root, tail) ==
    IF HasUnit(root, ":") \/ HasUnit(tail, ":")
    THEN [ok |-> FALSE, value |-> <<>>]
    ELSE [ok |-> TRUE, value |-> root \o <<":">> \o tail]

join_with_tail(root, tail) == join_paths(root, tail)

ScriptPath == <<"/", "tmp", "/", "dwl_service">>
TmpDir == <<"/", "tmp">>
HomeDirs == {<<"/">>, <<"/", "home">>, <<"/", "home", "/", Username>>}

ServicesPath == join_with_tail(ConfigDirOf(Username), <<"services">>).value
EnvsPath == join_with_tail(ConfigDirOf(Username), <<"envs">>).value
ConfigPaths == {ServicesPath, EnvsPath}

(***************************************************************************)
(* Documents.                                                              *)
(***************************************************************************)
DefaultService ==
    [name |-> "Import environment",
     exec |-> "/sbin/systemctl --user import-environment DISPLAY WAYLAND_DISPLAY XDG_CURRENT_DESKTOP"]

ServiceFileDefault == <<DefaultService>>

DefaultEnvs ==
    [k \in {"XDG_CURRENT_DESKTOP", "XDG_SESSION_TYPE"} |->
        IF k = "XDG_CURRENT_DESKTOP" THEN "wlroots" ELSE "wayland"]

NoEnvs == [k \in {} |-> ""]

\* toml::to_string of a ServiceFile: an array of tables, or the empty array.
RECURSIVE ServiceTables(_)
ServiceTables(s) ==
    IF s = <<>> THEN <<>>
    ELSE <<"[[service]]", "name", Head(s).name, "exec", Head(s).exec>>
         \o ServiceTables(Tail(s))

SerializeServiceFile(s) ==
    IF s = <<>> THEN <<"service = []">> ELSE ServiceTables(s)

\* toml::from_str::<ServiceFile>: the field `service` is required.
RECURSIVE ParseServiceTables(_)
ParseServiceTables(c) ==
    IF c = <<>> THEN [ok |-> TRUE, value |-> <<>>]
    ELSE IF Len(c) >= 5 /\ c[1] = "[[service]]" /\ c[2] = "name" /\ c[4] = "exec"
    THEN LET rest == ParseServiceTables(SubSeq(c, 6, Len(c)))
         IN  [ok |-> rest.ok,
              value |-> <<[name |-> c[3], exec |-> c[5]]>> \o rest.value]
    ELSE [ok |-> FALSE, value |-> <<>>]

ParseServiceFile(c) ==
    IF c = <<>> THEN [ok |-> FALSE, value |-> <<>>]
    ELSE IF c = <<"service = []">> THEN [ok |-> TRUE, value |-> <<>>]
    ELSE ParseServiceTables(c)

\* toml::to_string of an Envs: one key = value line per entry, in the
\* HashMap's iteration order, which is not fixed.
Orders(S) == {o \in [1..Cardinality(S) -> S] : \A i, j \in DOMAIN o : o[i] = o[j] => i = j}

RECURSIVE EnvLines(_, _)
EnvLines(e, order) ==
    IF order = <<>> THEN <<>>
    ELSE <<Head(order), "=", e[Head(order)]>> \o EnvLines(e, Tail(order))

SerializeEnvs(e) == {EnvLines(e, o) : o \in Orders(DOMAIN e)}

\* toml::from_str::<Envs>: the empty document is the empty map.
RECURSIVE ParseEnvs(_)
ParseEnvs(c) ==
    IF c = <<>> THEN [ok |-> TRUE, value |-> NoEnvs]
    ELSE IF Len(c) >= 3 /\ c[2] = "="
    THEN LET rest == ParseEnvs(SubSeq(c, 4, Len(c)))
         IN  IF rest.ok /\ c[1] \notin DOMAIN rest.value
             THEN [ok |-> TRUE, value |-> (c[1] :> c[3]) @@ rest.value]
             ELSE [ok |-> FALSE, value |-> NoEnvs]
    ELSE [ok |-> FALSE, value |-> NoEnvs]

(***************************************************************************)
(* generate_script: the shebang line and a blank line, then for every      *)
(* service in order "# ", the name, '\n', the exec and " &\n".             *)
(***************************************************************************)
RECURSIVE PushServices(_, _)
PushServices(string, list) ==
    IF list = <<>> THEN string
    ELSE PushServices(string \o <<"# ">> \o <<Head(list).name>> \o <<"\n">>
                             \o <<Head(list).exec>> \o <<" &\n">>,
                      Tail(list))

RECURSIVE Reversed(_)
Reversed(list) ==
    IF list = <<>> THEN <<>> ELSE Reversed(Tail(list)) \o <<Head(list)>>

\* Mutant: the services are emitted last to first.
generate_script_reversed(list) == PushServices(<<"#!/bin/bash\n\n">>, Reversed(list))

generate_script(list) == PushServices(<<"#!/bin/bash\n\n">>, list)

(***************************************************************************)
(* Files.                                                                  *)
(***************************************************************************)
Mode0744 == 484
\* A file that open(2) creates: 0o666 less the umask 0o022.
NewFileMode == 420

OwnerCanWrite(mode) == (mode \div 128) % 2 = 1

Exists(path) == path \in DOMAIN files

NewFile == [content |-> <<>>, mode |-> NewFileMode]

\* Mutant: the file is opened without truncation.
TruncatedNot(fs, path) ==
    IF path \in DOMAIN fs THEN fs ELSE fs @@ (path :> NewFile)

\* File::create: the file created empty, or an existing file truncated.
Truncated(fs, path) ==
    IF path \in DOMAIN fs
    THEN [fs EXCEPT ![path].content = <<>>]
    ELSE fs @@ (path :> NewFile)

\* Mutant: the handle appends.
WrittenAtEnd(old, string) == old \o string

\* write_all on a fresh handle: the bytes land at offset 0 and up; what the
\* file holds beyond them stays.
WrittenAtStart(old, string) ==
    string \o SubSeq(old, Len(string) + 1, Len(old))

(***************************************************************************)
(* User documents: what the user may put in a config file between runs.    *)
(***************************************************************************)
SvcA == [name |-> "A", exec |-> "echo 1"]
SvcB == [name |-> "B", exec |-> "echo 2"]
ServicePool == {SvcA, SvcB}

UserServiceLists == {<<>>, <<SvcA, SvcB>>}

UserEnvs == [k \in {"XDG_CURRENT_DESKTOP"} |-> "sway"]

UserDocs(path) ==
    IF path = ServicesPath
    THEN {SerializeServiceFile(s) : s \in UserServiceLists}
    ELSE SerializeEnvs(UserEnvs)

(***************************************************************************)
(* The state after construction: no instance has run, the home directory   *)
(* exists, the config directory and the script do not.                     *)
(***************************************************************************)
NoChild == [spawned |-> FALSE]
NoFrame == [string |-> <<>>, path |-> <<>>, ret |-> "none"]
NoFiles == [f \in {} |-> NewFile]
NoLocals ==
    [dir |-> <<>>, services_path |-> <<>>, envs_path |-> <<>>,
     services |-> <<>>, envs |-> NoEnvs, script |-> <<>>]

InitWith(o, ds, fs) ==
    /\ overlap = o
    /\ pc = [p \in Procs |-> "idle"]
    /\ dirs = ds
    /\ files = fs
    /\ local = [p \in Procs |-> NoLocals]
    /\ ws = [p \in Procs |-> NoFrame]
    /\ err = [p \in Procs |-> "none"]
    /\ child = [p \in Procs |-> NoChild]
    /\ whoami = [p \in Procs |-> "none"]
    /\ runs = 0
    /\ edits = 0
    /\ startExisted = [p \in Procs |-> {}]
    /\ startScript = [p \in Procs |-> None]
    /\ failed = [p \in Procs |-> "none"]
    /\ created = {}
    /\ written = {}

Init == \E ds \in {HomeDirs, HomeDirs \cup {TmpDir}} : InitWith(TRUE, ds, NoFiles)

InitSeq == \E ds \in {HomeDirs, HomeDirs \cup {TmpDir}} : InitWith(FALSE, ds, NoFiles)

\* The state after a bootstrap and the user's edit of the services file: any
\* list of at most MaxLen services.
ServiceLists == UNION {[1..n -> ServicePool] : n \in 0..MaxLen}

InitGen ==
    \E list \in ServiceLists : \E e \in SerializeEnvs(DefaultEnvs) :
        InitWith(FALSE,
                 create_dir_all(HomeDirs \cup {TmpDir}, ConfigDirOf(Username)),
                 (ServicesPath :> [content |-> SerializeServiceFile(list),
                                   mode |-> Mode0744])
                 @@ (EnvsPath :> [content |-> e, mode |-> Mode0744]))

Exited == {"exit_ok", "exit_err", "panicked"}

Stopped(p) == pc[p] \in Exited \cup {"idle"}

\* History: an operation of p's run returned `e` ("none": it succeeded) and
\* the run goes on.
Ran(p, e) ==
    failed' = [failed EXCEPT ![p] = IF @ = "none" THEN e ELSE @]

Forget(p, set) == {x \in set : x[2] # p}

\* `?`: the error goes to main()'s caller and the process ends, and so does a
\* panic; the variables of the process are gone.
Exit(p, how, e) ==
    /\ pc' = [pc EXCEPT ![p] = how]
    /\ err' = [err EXCEPT ![p] = e]
    /\ local' = [local EXCEPT ![p] = NoLocals]
    /\ ws' = [ws EXCEPT ![p] = NoFrame]
    /\ startExisted' = [startExisted EXCEPT ![p] = {}]
    /\ startScript' = [startScript EXCEPT ![p] = None]
    /\ failed' = [failed EXCEPT ![p] = "none"]
    /\ created' = Forget(p, created)
    /\ written' = Forget(p, written)

Goto(p, label) ==
    /\ pc' = [pc EXCEPT ![p] = label]
    /\ UNCHANGED <<err, startExisted, startScript>>

\* A call of write_string(string, path) that returns to `ret`.
Call(p, string, path, ret) ==
    /\ ws' = [ws EXCEPT ![p] = [string |-> string, path |-> path, ret |-> ret]]
    /\ Goto(p, "ws_mkdir")

(***************************************************************************)
(* A run starts: a fresh process.                                          *)
(***************************************************************************)
Start(p) ==
    /\ Stopped(p)
    /\ overlap \/ \A q \in Procs : Stopped(q)
    /\ runs < MaxRuns
    /\ runs' = runs + 1
    /\ pc' = [pc EXCEPT ![p] = "prepare"]
    /\ err' = [err EXCEPT ![p] = "none"]
    /\ child' = [child EXCEPT ![p] = NoChild]
    /\ whoami' = [whoami EXCEPT ![p] = "none"]
    /\ startExisted' = [startExisted EXCEPT ![p] = ConfigPaths \cap DOMAIN files]
    /\ startScript' = [startScript EXCEPT ![p] =
            IF Exists(ScriptPath) THEN files[ScriptPath].content ELSE None]
    /\ UNCHANGED <<overlap, edits, dirs, files, local, ws, failed, created, written>>

(***************************************************************************)
(* prepare()                                                               *)
(***************************************************************************)
\* let dir = get_config_dir()?;
ResolveDir(p, next) ==
    \E outcome \in WhoamiOutcomes :
        LET r == get_config_dir(outcome)
        IN  /\ whoami' = [whoami EXCEPT ![p] = outcome]
            /\ IF r.exit = "none"
               THEN /\ local' = [local EXCEPT ![p].dir = r.value]
                    /\ Ran(p, "none")
                    /\ Goto(p, next)
                    /\ UNCHANGED <<ws, created, written>>
               ELSE Exit(p, r.exit, r.err)
            /\ UNCHANGED <<overlap, runs, edits, dirs, files, child>>

PrepareGetConfigDir(p) ==
    /\ pc[p] = "prepare"
    /\ ResolveDir(p, "create_dir")

\* if !dir.exists() { fs::create_dir_all(&dir)?; }
PrepareCreateDir(p) ==
    /\ pc[p] = "create_dir"
    /\ \E ok \in BOOLEAN :
        IF local[p].dir \in dirs
        THEN /\ Goto(p, "services_new")
             /\ UNCHANGED <<dirs, local, ws, failed, created, written>>
        ELSE IF ok
        THEN /\ dirs' = create_dir_all(dirs, local[p].dir)
             /\ Ran(p, "none")
             /\ Goto(p, "services_new")
             /\ UNCHANGED <<local, ws, created, written>>
        ELSE /\ dirs' = dirs
             /\ Exit(p, "exit_err", "IOError")
    /\ UNCHANGED <<overlap, runs, edits, files, child, whoami>>

\* Mutant: the creation is not exclusive.
CanCreateAgain(path) == parent(path) \in dirs

\* fs::File::create_new(path): fails when the file exists or its directory
\* does not, and may fail on any other I/O error.
CanCreateNew(path) == ~Exists(path) /\ parent(path) \in dirs

\* Mutant: the default is written whether or not create_new succeeded.
CreateDefaultAlways(p, field, j, data, next) ==
    IF ~j.ok
    THEN /\ Exit(p, "exit_err", "JoinPathsError")
         /\ files' = files
    ELSE \E ok \in BOOLEAN :
        /\ files' = IF CanCreateNew(j.value) /\ ok
                    THEN files @@ (j.value :> NewFile) ELSE files
        /\ created' = IF CanCreateNew(j.value) /\ ok
                      THEN created \cup {<<j.value, p>>} ELSE created
        /\ local' = [local EXCEPT ![p][field] = j.value]
        /\ Ran(p, "none")
        /\ Call(p, data, j.value, next)
        /\ written' = written

\* let path = join_with_tail(&dir, tail)?; let file = File::create_new(&path);
\* if file.is_ok() { write_string(data, path)?; } and on to `next`.
CreateDefault(p, field, j, data, next) ==
    IF ~j.ok
    THEN /\ Exit(p, "exit_err", "JoinPathsError")
         /\ files' = files
    ELSE \E ok \in BOOLEAN :
        IF CanCreateNew(j.value) /\ ok
        THEN /\ files' = files @@ (j.value :> NewFile)
             /\ created' = created \cup {<<j.value, p>>}
             /\ local' = [local EXCEPT ![p][field] = j.value]
             /\ Ran(p, "none")
             /\ Call(p, data, j.value, next)
             /\ written' = written
        ELSE /\ Ran(p, IF CanCreateNew(j.value) THEN "CreateNewError" ELSE "none")
             /\ local' = [local EXCEPT ![p][field] = j.value]
             /\ Goto(p, next)
             /\ UNCHANGED <<files, ws, created, written>>

PrepareServices(p) ==
    /\ pc[p] = "services_new"
    /\ LET j == join_with_tail(local[p].dir, <<"services">>)
       IN  CreateDefault(p, "services_path", j,
                         SerializeServiceFile(ServiceFileDefault), "envs_new")
    /\ UNCHANGED <<overlap, runs, edits, dirs, child, whoami>>

PrepareEnvs(p) ==
    /\ pc[p] = "envs_new"
    /\ LET j == join_with_tail(local[p].dir, <<"envs">>)
       IN  \E data \in SerializeEnvs(DefaultEnvs) :
               CreateDefault(p, "envs_path", j, data, "main")
    /\ UNCHANGED <<overlap, runs, edits, dirs, child, whoami>>

(***************************************************************************)
(* write_string(string, path)                                              *)
(***************************************************************************)
\* fs::create_dir_all(directory_of(path.as_ref())?)?;
WsCreateDirAll(p) ==
    /\ pc[p] = "ws_mkdir"
    /\ LET d == directory_of(ws[p].path)
       IN  IF ~d.ok
           THEN /\ Exit(p, "exit_err", "Can't get parent directory")
                /\ dirs' = dirs
           ELSE \E ok \in BOOLEAN :
               IF ok \/ d.value \in dirs
               THEN /\ dirs' = create_dir_all(dirs, d.value)
                    /\ Ran(p, "none")
                    /\ Goto(p, "ws_create")
                    /\ UNCHANGED <<local, ws, created, written>>
               ELSE /\ dirs' = dirs
                    /\ Exit(p, "exit_err", "IOError")
    /\ UNCHANGED <<overlap, runs, edits, files, child, whoami>>

\* let mut file = fs::File::create(path.as_ref())?;
CanCreate(path) ==
    /\ parent(path) \in dirs
    /\ Exists(path) => OwnerCanWrite(files[path].mode)

WsCreate(p) ==
    /\ pc[p] = "ws_create"
    /\ \E ok \in BOOLEAN :
        IF ok /\ CanCreate(ws[p].path)
        THEN /\ files' = Truncated(files, ws[p].path)
             /\ written' = written \cup {<<ws[p].path, p>>}
             /\ Ran(p, "none")
             /\ Goto(p, "ws_write")
             /\ UNCHANGED <<local, ws, created>>
        ELSE /\ files' = files
             /\ Exit(p, "exit_err", "IOError")
    /\ UNCHANGED <<overlap, runs, edits, dirs, child, whoami>>

\* write!(file, "{}", string.as_ref())?;
WsWrite(p) ==
    /\ pc[p] = "ws_write"
    /\ \E ok \in BOOLEAN :
        IF ok
        THEN /\ files' = [files EXCEPT ![ws[p].path].content =
                              WrittenAtStart(@, ws[p].string)]
             /\ Ran(p, "none")
             /\ Goto(p, "ws_chmod")
             /\ UNCHANGED <<local, ws, created, written>>
        ELSE /\ files' = files
             /\ Exit(p, "exit_err", "IOError")
    /\ UNCHANGED <<overlap, runs, edits, dirs, child, whoami>>

\* file.set_permissions(Permissions::from_mode(0o744))?;
WsSetPermissions(p) ==
    /\ pc[p] = "ws_chmod"
    /\ \E ok \in BOOLEAN :
        IF ok
        THEN /\ files' = [files EXCEPT ![ws[p].path].mode = Mode0744]
             /\ Ran(p, "none")
             /\ Goto(p, "ws_return")
             /\ UNCHANGED <<local, ws, created, written>>
        ELSE /\ files' = files
             /\ Exit(p, "exit_err", "IOError")
    /\ UNCHANGED <<overlap, runs, edits, dirs, child, whoami>>

\* Ok(())
WsReturn(p) ==
    /\ pc[p] = "ws_return"
    /\ Goto(p, ws[p].ret)
    /\ ws' = [ws EXCEPT ![p] = NoFrame]
    /\ UNCHANGED <<overlap, runs, edits, dirs, files, local, child, whoami,
                   created, written, failed>>

(***************************************************************************)
(* main()                                                                  *)
(***************************************************************************)
\* prepare()?; let dir = get_config_dir()?;
MainGetConfigDir(p) ==
    /\ pc[p] = "main"
    /\ ResolveDir(p, "load_services")

\* read_to_struct(path): fs::read_to_string(path)? then from_str(&file)?
from_str(T, file) ==
    IF T = "ServiceFile" THEN ParseServiceFile(file) ELSE ParseEnvs(file)

read_to_struct(T, j, ok) ==
    IF ~j.ok THEN [err |-> "JoinPathsError", value |-> <<>>]
    ELSE IF ~Exists(j.value) \/ ~ok
    THEN [err |-> "ConfigReadError", value |-> <<>>]
    ELSE LET r == from_str(T, files[j.value].content)
         IN  IF r.ok THEN [err |-> "none", value |-> r.value]
             ELSE [err |-> "ConfigParseError", value |-> <<>>]

\* let services: ServiceFile = read_to_struct(join_with_tail(&dir, "services")?)?;
LoadServices(p) ==
    /\ pc[p] = "load_services"
    /\ \E ok \in BOOLEAN :
        LET r == read_to_struct("ServiceFile",
                                join_with_tail(local[p].dir, <<"services">>), ok)
        IN  IF r.err = "none"
            THEN /\ local' = [local EXCEPT ![p].services = r.value]
                 /\ Ran(p, "none")
                 /\ Goto(p, "load_envs")
                 /\ UNCHANGED <<ws, created, written>>
            ELSE Exit(p, "exit_err", r.err)
    /\ UNCHANGED <<overlap, runs, edits, dirs, files, child, whoami>>

\* let envs: Envs = read_to_struct(join_with_tail(&dir, "envs")?)?;
LoadEnvs(p) ==
    /\ pc[p] = "load_envs"
    /\ \E ok \in BOOLEAN :
        LET r == read_to_struct("Envs",
                                join_with_tail(local[p].dir, <<"envs">>), ok)
        IN  IF r.err = "none"
            THEN /\ local' = [local EXCEPT ![p].envs = r.value]
                 /\ Ran(p, "none")
                 /\ Goto(p, "generate")
                 /\ UNCHANGED <<ws, created, written>>
            ELSE Exit(p, "exit_err", r.err)
    /\ UNCHANGED <<overlap, runs, edits, dirs, files, child, whoami>>

\* let script = generate_script(services); write_string(script, "/tmp/dwl_service")?;
GenerateScript(p) ==
    /\ pc[p] = "generate"
    /\ local' = [local EXCEPT ![p].script = generate_script(local[p].services)]
    /\ Call(p, generate_script(local[p].services), ScriptPath, "init")
    /\ UNCHANGED <<overlap, runs, edits, dirs, files, child, whoami, created,
                   written, failed>>

\* Mutant: a failed spawn removes the script it was to run.
InitSpawnCleanup(p) ==
    /\ pc[p] = "init"
    /\ \E ok \in BOOLEAN :
        IF ok
        THEN /\ child' = [child EXCEPT ![p] =
                    [spawned |-> TRUE, envs |-> local[p].envs,
                     arg |-> "-s \"/tmp/dwl_service\""]]
             /\ files' = files
             /\ Exit(p, "exit_ok", "none")
        ELSE /\ child' = child
             /\ files' = [f \in DOMAIN files \ {ScriptPath} |-> files[f]]
             /\ Exit(p, "exit_err", "SpawnError")
    /\ UNCHANGED <<overlap, runs, edits, dirs, whoami>>

\* init(envs)?; Ok(())
InitSpawn(p) ==
    /\ pc[p] = "init"
    /\ \E ok \in BOOLEAN :
        IF ok
        THEN /\ child' = [child EXCEPT ![p] =
                    [spawned |-> TRUE, envs |-> local[p].envs,
                     arg |-> "-s \"/tmp/dwl_service\""]]
             /\ Exit(p, "exit_ok", "none")
        ELSE /\ child' = child
             /\ Exit(p, "exit_err", "SpawnError")
    /\ UNCHANGED <<overlap, runs, edits, dirs, files, whoami>>

(***************************************************************************)
(* The user edits a config file while no instance is bootstrapping or      *)
(* loading it.                                                             *)
(***************************************************************************)
UsesConfig(p) ==
    \/ pc[p] \in {"prepare", "create_dir", "services_new", "envs_new", "main",
                  "load_services", "load_envs"}
    \/ ws[p].path \in ConfigPaths

UserEdit ==
    /\ edits < MaxEdits
    /\ \A p \in Procs : ~UsesConfig(p)
    /\ \E path \in ConfigPaths : \E doc \in UserDocs(path) :
        /\ Exists(path)
        /\ files[path].content # doc
        /\ files' = [files EXCEPT ![path].content = doc]
    /\ edits' = edits + 1
    /\ UNCHANGED <<overlap, pc, dirs, local, ws, err, child, whoami, runs,
                   startExisted, startScript, failed, created, written>>

Step(p) ==
    \/ Start(p)
    \/ PrepareGetConfigDir(p)
    \/ PrepareCreateDir(p)
    \/ PrepareServices(p)
    \/ PrepareEnvs(p)
    \/ WsCreateDirAll(p)
    \/ WsCreate(p)
    \/ WsWrite(p)
    \/ WsSetPermissions(p)
    \/ WsReturn(p)
    \/ MainGetConfigDir(p)
    \/ LoadServices(p)
    \/ LoadEnvs(p)
    \/ GenerateScript(p)
    \/ InitSpawn(p)

Next == (\E p \in Procs : Step(p)) \/ UserEdit

\* Two instances that may run at the same time, and the user.
Spec == Init /\ [][Next]_vars

\* One run at a time, run after run, and the user between the runs.
SpecSeq == InitSeq /\ [][Next]_vars

\* One run at a time on a services file that holds any list of services.
SpecGen == InitGen /\ [][Next]_vars

(***************************************************************************)
(* The claims.                                                             *)
(***************************************************************************)
Running(p) == ~Stopped(p)

\* p is in prepare(), write_string calls of prepare() included.
InBootstrap(p) ==
    \/ pc[p] \in {"prepare", "create_dir", "services_new", "envs_new"}
    \/ ws[p].ret \in {"envs_new", "main"}

\* C1: with one run at a time, no step taken while a run is in its bootstrap
\* changes a config file that existed when that run started: the file keeps
\* its content (and mode) through the run, whatever the user put in it before.
C1_ExistingConfigKept ==
    [][\A p \in Procs : InBootstrap(p) =>
          \A f \in startExisted[p] : f \in DOMAIN files' /\ files'[f] = files[f]]_vars

\* A later run's bootstrap has returned and both files, which existed when it
\* started, hold what the user wrote between the runs or the defaults.
C1_Witness ==
    \E p \in Procs :
        /\ pc[p] = "main"
        /\ startExisted[p] = ConfigPaths
        /\ files[ServicesPath].content = SerializeServiceFile(<<SvcA, SvcB>>)
        /\ files[EnvsPath].content \in SerializeEnvs(DefaultEnvs)

\* C2: the generated script is the shebang unit followed, for the i-th
\* service of the list, by the five units "# ", name, "\n", exec, " &\n" at
\* the i-th place, and nothing else; for the empty list the shebang alone.
C2_ScriptLayout ==
    \A p \in Procs :
        local[p].script # <<>> =>
            LET out == local[p].script
                s == local[p].services
            IN  /\ Len(out) = 1 + 5 * Len(s)
                /\ out[1] = "#!/bin/bash\n\n"
                /\ \A i \in 1..Len(s) :
                    /\ out[5 * i - 3] = "# "
                    /\ out[5 * i - 2] = s[i].name
                    /\ out[5 * i - 1] = "\n"
                    /\ out[5 * i] = s[i].exec
                    /\ out[5 * i + 1] = " &\n"

\* A script was generated from a list of several services in which the order
\* shows.
C2_Witness ==
    \E p \in Procs :
        /\ local[p].script # <<>>
        /\ Len(local[p].services) >= 2
        /\ local[p].services[1] # local[p].services[2]

\* C3: no run goes on after an operation of it failed, and a run exits 0
\* only with its child spawned.
C3_FailFast ==
    \A p \in Procs :
        /\ failed[p] = "none"
        /\ pc[p] = "exit_ok" => child[p].spawned

\* C4: the services and envs paths of the bootstrap are the config directory
\* followed by "/services" and "/envs", and their parent is that directory.
C4_FilesUnderConfigDir ==
    \A p \in Procs :
        /\ local[p].services_path # <<>> =>
              /\ local[p].services_path = local[p].dir \o <<"/", "services">>
              /\ parent(local[p].services_path) = local[p].dir
        /\ local[p].envs_path # <<>> =>
              /\ local[p].envs_path = local[p].dir \o <<"/", "envs">>
              /\ parent(local[p].envs_path) = local[p].dir

OwnerBits(mode) == (mode \div 64) % 8
GroupBits(mode) == (mode \div 8) % 8
OtherBits(mode) == mode % 8

\* write_string(string, path) has returned Ok(()) in p.
Returned(p) == pc[p] = "ws_return"

WroteAsAsked(p) ==
    /\ Chain(parent(ws[p].path)) \subseteq dirs
    /\ Exists(ws[p].path)
    /\ files[ws[p].path].content = ws[p].string

\* C5, as stated: after a successful write_string the parent chain exists,
\* the file holds the string, and its bits are rwx for the owner and r-x for
\* group and others.
C5_Mode_rwxr_xr_x ==
    \A p \in Procs :
        Returned(p) =>
            /\ WroteAsAsked(p)
            /\ OwnerBits(files[ws[p].path].mode) = 7
            /\ GroupBits(files[ws[p].path].mode) = 5
            /\ OtherBits(files[ws[p].path].mode) = 5

\* C5, amended: after a successful write_string, with one run at a time, the
\* parent chain exists, the file holds the string, and its bits are 0744:
\* rwx for the owner, r-- for group and others.
C5_Mode_rwxr__r__ ==
    \A p \in Procs :
        Returned(p) =>
            /\ WroteAsAsked(p)
            /\ OwnerBits(files[ws[p].path].mode) = 7
            /\ GroupBits(files[ws[p].path].mode) = 4
            /\ OtherBits(files[ws[p].path].mode) = 4

\* write_string has returned from replacing a script that held something else.
C5_Witness ==
    \E p \in Procs :
        /\ Returned(p)
        /\ ws[p].path = ScriptPath
        /\ startScript[p] # None
        /\ startScript[p] # ws[p].string

\* C6: of the instances running, at most one has created a given config
\* file, and an instance opens (truncates) and writes a config file only if
\* it is the one that created it.
C6_OneCreator ==
    \A f \in ConfigPaths :
        /\ Cardinality({p \in Procs : <<f, p>> \in created}) <= 1
        /\ \A p \in Procs : <<f, p>> \in written => <<f, p>> \in created

\* Two instances started with the services file missing; one created it and
\* is writing it, the other found it there and went on.
C6_Witness ==
    \E p, q \in Procs :
        /\ p # q
        /\ <<ServicesPath, p>> \in created
        /\ pc[p] = "ws_write"
        /\ ws[p].path = ServicesPath
        /\ pc[q] = "envs_new"
        /\ ServicesPath \notin startExisted[q]

\* The two messages of get_config_dir: the UserResolutionError.
UserResolutionError == {"Cannot get username", "Cannot translate username"}

\* C7: whenever whoami() fails or gives a name that is not a plain string,
\* get_config_dir returns the error as a value: main() returns it, and the
\* process ends by no other route.
C7_ReturnsError ==
    \A p \in Procs :
        whoami[p] \in {"nouser", "nonutf8"} =>
            pc[p] = "exit_err" /\ err[p] \in UserResolutionError

ScriptNow == IF Exists(ScriptPath) THEN files[ScriptPath].content ELSE None

\* C8: with one run at a time, the step that aborts a run changes no file
\* and no directory and spawns nothing; when it is a load that fails the
\* script is what it was when the run started; when it is the spawn the
\* script holds what the run generated.
C8_AbortLeavesAll ==
    [][\A p \in Procs :
          Running(p) /\ pc'[p] \in {"exit_err", "panicked"} =>
              /\ files' = files
              /\ dirs' = dirs
              /\ ~child'[p].spawned
              /\ err'[p] \in {"ConfigReadError", "ConfigParseError"} =>
                    ScriptNow = startScript[p]
              /\ err'[p] = "SpawnError" =>
                    ScriptNow = local[p].script]_vars

\* A run was aborted by the failed spawn: the bootstrapped files and the
\* script are there, no child is.
C8_Witness ==
    \E p \in Procs :
        /\ pc[p] = "exit_err"
        /\ err[p] = "SpawnError"
        /\ ~child[p].spawned
        /\ ConfigPaths \subseteq DOMAIN files
        /\ Exists(ScriptPath)
        /\ files[ScriptPath].mode = Mode0744

\* p's write of the script is done and p has not exited.
WroteScript(p) ==
    \/ pc[p] \in {"ws_chmod", "ws_return"} /\ ws[p].path = ScriptPath
    \/ pc[p] = "init"

BothWrote(p, q) == p # q /\ WroteScript(p) /\ WroteScript(q)

\* C9, as stated: once both instances have written the script, the file is
\* the script of one of them.
C9_LastWriterWins ==
    \A p, q \in Procs :
        BothWrote(p, q) => ScriptNow \in {local[p].script, local[q].script}

\* C9, amended: once both instances have written the script, the file is as
\* long as one of the two scripts and holds at every offset what one of them
\* holds there (so it is that script when the two are equal, and may be the
\* shorter script followed by the rest of the longer one).
C9_UnitsOfEither ==
    \A p, q \in Procs :
        BothWrote(p, q) =>
            /\ Exists(ScriptPath)
            /\ Len(ScriptNow) \in {Len(local[p].script), Len(local[q].script)}
            /\ \A i \in 1..Len(ScriptNow) :
                  \/ i <= Len(local[p].script) /\ ScriptNow[i] = local[p].script[i]
                  \/ i <= Len(local[q].script) /\ ScriptNow[i] = local[q].script[i]

\* Both instances have written, and the file is neither one's script.
C9_Witness ==
    \E p, q \in Procs :
        /\ BothWrote(p, q)
        /\ ScriptNow \notin {local[p].script, local[q].script}

Complete(T, path) ==
    /\ Exists(path)
    /\ files[path].content # <<>>
    /\ from_str(T, files[path].content).ok

\* C10: when prepare() has returned Ok(()) in an instance (none of whose
\* operations failed), both config files hold a complete document.
C10_CompleteAfterBootstrap ==
    \A p \in Procs :
        pc[p] = "main" /\ failed[p] = "none" =>
            /\ Complete("ServiceFile", ServicesPath)
            /\ Complete("Envs", EnvsPath)

====
